---- MODULE Spec2Model ----
(***************************************************************************)
(* Judgement job of koneko-online-judge: one run of judgementJob.Run over  *)
(* a submission with NumSets case sets of NumCases test cases each,        *)
(* together with the Simple evaluator it drives.                           *)
(***************************************************************************)
EXTENDS Integers, Sequences, FiniteSets

\* ---------------------------------------------------------------- bounds
NumSets == 2
NumCases == 2
MaxExecTime == 1

NumUsers == 2
NumRequests == 2
MaxTokens == 3
MaxNow == 40
MaxStrLen == 2

Sets == 1..NumSets
Cases == 1..NumCases
Users == 1..NumUsers
Requests == 1..NumRequests

\* ------------------------------------------------------- judgement status
WorkerStatuses ==
    {"Finished", "TimeLimitExceeded", "MemoryLimitExceeded", "RuntimeError",
     "OutputLimitExceeded", "InternalError"}

PriorityOrder ==
    <<"UnknownError", "CompileError", "RuntimeError", "MemoryLimitExceeded",
      "TimeLimitExceeded", "OutputLimitExceeded", "WrongAnswer",
      "PresentationError", "Accepted">>

TerminalStatuses == {PriorityOrder[n] : n \in 1..Len(PriorityOrder)}

JudgementStatuses == TerminalStatuses \cup {"WaitingJudge", "Judging"}

Rank(st) == CHOOSE n \in 1..Len(PriorityOrder) : PriorityOrder[n] = st

EmptyStatuses == [st \in TerminalStatuses |-> 0]

Incr(statuses, st) == [statuses EXCEPT ![st] = @ + 1]

\* the highest-priority status present in the map, UnknownError when empty
evaluateStatuses(statuses) ==
    LET present == {st \in TerminalStatuses : statuses[st] > 0}
    IN  IF present = {} THEN "UnknownError"
        ELSE CHOOSE st \in present : \A other \in present : Rank(st) <= Rank(other)

\* the same fold over a set of statuses (used to state the claims)
FoldSet(present) ==
    IF present = {} THEN "UnknownError"
    ELSE CHOOSE st \in present : \A other \in present : Rank(st) <= Rank(other)

MaxDuration(a, b) == IF a > b THEN a ELSE b
MaxLong(a, b) == IF a > b THEN a ELSE b

\* ------------------------------------------------------------- test data
\* CaseSet.Point as stored for case set s
SetPoint(s) == s

\* the answers of the test cases of a set, one per case
Answers == <<"3", "4", "5", "6", "7">>

\* TestCase.Output of test case c
ExpectedOutput(c) == <<Answers[c], "\n">>

\* what a user program may print: the output expected for some case of the
\* set, or the first answer without its newline
Stdouts == {ExpectedOutput(c) : c \in Cases} \cup {<<Answers[1]>>}

IsSpace(c) == c \in {" ", "\n", "\t", "\r"}

RECURSIVE TrimLeft(_)
TrimLeft(str) ==
    IF str # <<>> /\ IsSpace(Head(str)) THEN TrimLeft(Tail(str)) ELSE str

RECURSIVE TrimRight(_)
TrimRight(str) ==
    IF str # <<>> /\ IsSpace(str[Len(str)])
    THEN TrimRight(SubSeq(str, 1, Len(str) - 1))
    ELSE str

\* strings.TrimSpace
TrimSpace(str) == TrimRight(TrimLeft(str))

\* memory figures (bytes) a block may report for a measured time
MemoryBytes(t) == t * 1536

\* the ExecResults the batch parser may present for one case
ExecResults ==
    {[status |-> ws, stdout |-> out, execTime |-> t, memoryUsage |-> MemoryBytes(t)] :
        ws \in {"Finished"}, out \in Stdouts, t \in 0..MaxExecTime}
    \cup
    {[status |-> ws, stdout |-> <<>>, execTime |-> MaxExecTime,
      memoryUsage |-> MemoryBytes(MaxExecTime)] :
        ws \in WorkerStatuses \ {"Finished"}}

\* what the compiler run may report
CompileResults ==
    {[status |-> ws, exitCode |-> ec] :
        ws \in {"Finished", "TimeLimitExceeded", "RuntimeError"}, ec \in {0, 1}}

JudgeTypes == {"Normal", "Special", "Unimplemented"}

\* ----------------------------------------------------------- sandbox ids
CompileBox == <<"compile", 0>>
CheckerBox == <<"checker", 0>>
ExecBox(s) == <<"exec", s>>

\* all orders shuffleJudgeResults can leave the NumCases results in
Permutations ==
    {p \in [Cases -> Cases] : \A a, b \in Cases : p[a] = p[b] => a = b}

\* results[a], results[b] = results[b], results[a]
Swap(results, a, b) ==
    [n \in DOMAIN results |->
        IF n = a THEN results[b] ELSE IF n = b THEN results[a] ELSE results[n]]

\* the draws r.Intn(i + 1) of one shuffle: position n may draw 1..n
Draws == {js \in [Cases -> Cases] : \A n \in Cases : js[n] <= n}

\* the loop of shuffleJudgeResults from position n down to the first
RECURSIVE shuffleFrom(_, _, _)
shuffleFrom(results, js, n) ==
    IF n = 0 THEN results
    ELSE shuffleFrom(Swap(results, n, js[n]), js, n - 1)

\* shuffleJudgeResults: seeded, it swaps from the last position down; when
\* the seed cannot be read it returns the error and leaves the list alone
shuffleJudgeResults(results, seeded, js) ==
    IF seeded THEN shuffleFrom(results, js, NumCases) ELSE results

\* ------------------------------------------------------- simple evaluator
\* newSimpleEvaluator
newSimpleEvaluator ==
    [point |-> 0, statuses |-> EmptyStatuses, hasLast |-> FALSE,
     lastSet |-> [setPoint |-> 0, statuses |-> EmptyStatuses]]

\* newSimpleCaseSetEvaluator(set), set.Point given
newSimpleCaseSetEvaluator(setPoint) ==
    [setPoint |-> setPoint, statuses |-> EmptyStatuses]

\* simpleCaseSetEvaluator.evaluate -> <<status, point>>
caseSetEvaluate(se) ==
    LET st == evaluateStatuses(se.statuses)
    IN  IF st = "Accepted" THEN <<st, se.setPoint>> ELSE <<st, 0>>

\* the first half of simpleEvaluator.next: fold the previous set in
foldLastSet(e) ==
    IF e.hasLast
    THEN LET v == caseSetEvaluate(e.lastSet)
         IN  [e EXCEPT !.point = @ + v[2], !.statuses = Incr(@, v[1])]
    ELSE e

\* simpleEvaluator.next(set, nil) with set # nil
evalNext(e, setPoint) ==
    [foldLastSet(e) EXCEPT !.hasLast = TRUE,
                           !.lastSet = newSimpleCaseSetEvaluator(setPoint)]

\* simpleEvaluator.evaluate -> <<status, point>>
evalEvaluate(e) ==
    IF ~e.hasLast THEN <<"UnknownError", 0>>
    ELSE LET f == foldLastSet(e)
         IN  <<evaluateStatuses(f.statuses), f.point>>

\* the status simpleCaseSetEvaluator.next gives one result; res.present is
\* FALSE for a nil *ExecResult
simpleClassify(res, expected) ==
    IF ~res.present THEN "UnknownError"
    ELSE CASE res.status = "MemoryLimitExceeded" -> "MemoryLimitExceeded"
           [] res.status = "TimeLimitExceeded" -> "TimeLimitExceeded"
           [] res.status = "RuntimeError" -> "RuntimeError"
           [] res.status = "Finished" ->
                IF res.stdout = expected THEN "Accepted"
                ELSE IF TrimSpace(res.stdout) = TrimSpace(expected)
                     THEN "PresentationError"
                     ELSE "WrongAnswer"
           [] OTHER -> "UnknownError"

\* the special evaluator's per-case status: the user run's status dominates,
\* then the checker's exit status decides
specialClassify(res, checkerExit) ==
    IF ~res.present THEN "UnknownError"
    ELSE CASE res.status = "MemoryLimitExceeded" -> "MemoryLimitExceeded"
           [] res.status = "TimeLimitExceeded" -> "TimeLimitExceeded"
           [] res.status = "RuntimeError" -> "RuntimeError"
           [] res.status = "Finished" ->
                IF checkerExit = 0 THEN "Accepted" ELSE "WrongAnswer"
           [] OTHER -> "UnknownError"

Present(res) ==
    [present |-> TRUE, status |-> res.status, stdout |-> res.stdout,
     execTime |-> res.execTime, memoryUsage |-> res.memoryUsage]

NilResult ==
    [present |-> FALSE, status |-> "InternalError", stdout |-> <<>>,
     execTime |-> 0, memoryUsage |-> 0]

\* simpleCaseSetEvaluator.next: the status it counts and the point it returns
simpleNext(res, expected) ==
    [status |-> simpleClassify(res, expected), point |-> 0]

\* locals of judgeCaseSet that are declared and never assigned
maxExecTime == 0
maxMemoryUsage == 0

\* ------------------------------------------------------------------ state
VARIABLES
    pc,            \* position of the job inside Run
    exists,        \* GetSubmission finds the submission
    judgeType,     \* Problem.JudgeType
    preloaded,     \* FetchJudgeSetResults filled JudgeSetResult.CaseSet
    dbSub,         \* the Submission row
    dbSet,         \* the JudgeSetResult rows
    dbCase,        \* the JudgeResult rows
    subm,          \* j.submission (in memory)
    loaded,        \* j.submission.JudgeSetResults (in memory)
    execTime, memoryUsage, point, finalStatus,   \* accumulators of Run
    eval,          \* the evaluator, eval.lastSet being the set evaluator
    hasEval,       \* eval was constructed (eval.remove is deferred)
    compiled,      \* j.compiled # nil
    compileRes,    \* the compiler's ExecResult
    live,          \* sandboxes that exist
    created,       \* sandboxes ever created
    k,             \* index of the case set of the loop in Run
    i,             \* position of the loop in judgeCaseSet
    order,         \* order[n]: the test case whose JudgeResult is at position n
    r,             \* the loop's copy of the JudgeSetResult
    panicking,     \* a run-time panic is unwinding Run
    finalWrites,   \* submission-level finalisation writes so far
    notified,      \* snapshots handed to onUpdateJudgementStatuses
    hookCalls,     \* calls of updateScore
    parseErrAt,    \* case sets whose judgeCaseSet returned an error
    noBlock,       \* <<set, position>> where p.Next() presented no block
    naive,         \* naive[s][c]: the verdict of the run on case c's input
                   \* against case c's expected output ("none": not run)
    failure,       \* the sandbox failure that happened: none, compile, exec
    cIn, cOut,     \* one call of simpleCaseSetEvaluator.next: input, status
    sessions,      \* the UserSession rows
    nextId,        \* the next primary key of a UserSession row
    nextToken,     \* the next secret GenerateSecretToken hands out
    call,          \* call[p]: the NewSession call request p is in
    now,           \* time.Now(), in hours
    lastCheck,     \* the last CheckLogin call and its answer
    latest         \* latest[u]: the token the last finished NewSession gave u

vars ==
    <<pc, exists, judgeType, preloaded, dbSub, dbSet, dbCase, subm, loaded,
      execTime, memoryUsage, point, finalStatus, eval, hasEval, compiled,
      compileRes, live, created, k, i, order, r, panicking, finalWrites,
      notified, hookCalls, parseErrAt, noBlock, naive, failure,
      cIn, cOut, sessions, nextId, nextToken, call, now, lastCheck, latest>>

dbVars == <<dbSub, dbSet, dbCase>>
accVars == <<execTime, memoryUsage, point, finalStatus>>
classifyVars == <<cIn, cOut>>
sessionVars == <<sessions, nextId, nextToken, call, now, lastCheck, latest>>
\* what Run reads and never writes
envVars == <<exists, judgeType, preloaded, classifyVars, sessionVars>>
loopVars == <<k, i, order, r>>
outVars == <<finalWrites, notified, hookCalls>>
histVars == <<parseErrAt, noBlock, naive, failure>>

BlankRow == [status |-> "UnknownError", point |-> 0, execTime |-> 0, memoryUsage |-> 0]
BlankCase == [status |-> "UnknownError", execTime |-> 0, memoryUsage |-> 0]
NoCompileRes == [present |-> FALSE, status |-> "InternalError", exitCode |-> 0]
IdentityOrder == [n \in Cases |-> n]

\* the job's own state before Run
JobFields ==
    /\ dbSub = [status |-> "WaitingJudge", point |-> 0, execTime |-> 0, memoryUsage |-> 0]
    /\ dbSet = [s \in Sets |-> BlankRow]
    /\ dbCase = [s \in Sets |-> [c \in Cases |-> BlankCase]]
    /\ subm = dbSub
    /\ loaded = dbSet
    /\ execTime = 0 /\ memoryUsage = 0 /\ point = 0
    /\ finalStatus = "UnknownError"
    /\ eval = newSimpleEvaluator
    /\ hasEval = FALSE
    /\ compiled = FALSE
    /\ compileRes = NoCompileRes
    /\ live = {} /\ created = {}
    /\ k = 1 /\ i = 1
    /\ order = IdentityOrder
    /\ r = BlankRow
    /\ panicking = FALSE
    /\ finalWrites = 0
    /\ notified = <<>>
    /\ hookCalls = 0
    /\ parseErrAt = {}
    /\ noBlock = {}
    /\ naive = [s \in Sets |-> [c \in Cases |-> "none"]]
    /\ failure = "none"

\* no job is running (the evaluator and the sessions are looked at alone)
JobIdle ==
    /\ pc = "idle"
    /\ exists = FALSE
    /\ judgeType = "Normal"
    /\ preloaded = FALSE
    /\ JobFields

NoCall == [pc |-> "idle", user |-> 0, token |-> 0, old |-> 0]
NoCheck == [ok |-> FALSE, user |-> 0, token |-> 0, age |-> 0, latest |-> 0]
NoInput == [res |-> NilResult, expected |-> <<>>]
NoOutput == [status |-> "none", point |-> 0]

\* no evaluator call is looked at alone
ClassifyIdle ==
    /\ cIn = NoInput
    /\ cOut = NoOutput

\* the session table before any login
SessionStart ==
    /\ sessions = {}
    /\ nextId = 1
    /\ nextToken = 1
    /\ call = [p \in Requests |-> NoCall]
    /\ now = 0
    /\ lastCheck = NoCheck
    /\ latest = [u \in Users |-> 0]

Init ==
    /\ pc = "start"
    /\ exists \in BOOLEAN
    /\ judgeType \in JudgeTypes
    /\ preloaded \in BOOLEAN
    /\ JobFields
    /\ ClassifyIdle
    /\ SessionStart

\* ------------------------------------------------------------ Run: start
\* Run with the finalising defer registered before the nil check
RunAbsentFinalises ==
    /\ pc = "start" /\ ~exists
    /\ pc' = "deferFinal"
    /\ UNCHANGED <<envVars, dbVars, subm, loaded, accVars, eval, hasEval, compiled,
                   compileRes, live, created, loopVars, panicking, outVars, histVars>>

\* Run, the submission is gone: log and return
RunAbsent ==
    /\ pc = "start" /\ ~exists
    /\ pc' = "close"
    /\ UNCHANGED <<envVars, dbVars, subm, loaded, accVars, eval, hasEval, compiled,
                   compileRes, live, created, loopVars, panicking, outVars, histVars>>

\* Submission.SetStatus(StatusJudging)
SetStatus(row, st) == [row EXCEPT !.status = st]

\* Run up to the registration of the finalising defer
RunPrepare ==
    /\ pc = "start" /\ exists
    /\ dbSub' = SetStatus(dbSub, "Judging")
    /\ subm' = SetStatus(subm, "Judging")
    /\ loaded' = dbSet
    /\ execTime' = 0 /\ memoryUsage' = 0 /\ point' = 0
    /\ finalStatus' = "UnknownError"
    /\ pc' = "newEval"
    /\ UNCHANGED <<envVars, dbSet, dbCase, eval, hasEval, compiled, compileRes, live,
                   created, loopVars, panicking, outVars, histVars>>

\* markAs: every JudgeSetResult row and every JudgeResult row gets the status
markAsSets(rows, st) == [s \in Sets |-> [rows[s] EXCEPT !.status = st]]
\* markAs without the inner loop over s.JudgeResults
markAsCasesSkipped(rows, st) == rows

markAsCases(rows, st) == [s \in Sets |-> [c \in Cases |-> [rows[s][c] EXCEPT !.status = st]]]

markAs(st) ==
    /\ dbSet' = markAsSets(dbSet, st)
    /\ dbCase' = markAsCases(dbCase, st)

\* ------------------------------------------------- Run: evaluator switch
\* case JudgeTypeNormal
EvalNormal ==
    /\ pc = "newEval" /\ judgeType = "Normal"
    /\ eval' = newSimpleEvaluator
    /\ hasEval' = TRUE
    /\ pc' = "compile"
    /\ UNCHANGED <<envVars, dbVars, subm, loaded, accVars, compiled, compileRes, live,
                   created, loopVars, panicking, outVars, histVars>>

\* case JudgeTypeSpecial, the checker was built in its own sandbox
EvalSpecialOk ==
    /\ pc = "newEval" /\ judgeType = "Special"
    /\ eval' = newSimpleEvaluator
    /\ hasEval' = TRUE
    /\ live' = live \cup {CheckerBox}
    /\ created' = created \cup {CheckerBox}
    /\ pc' = "compile"
    /\ UNCHANGED <<envVars, dbVars, subm, loaded, accVars, compiled, compileRes,
                   loopVars, panicking, outVars, histVars>>

\* case JudgeTypeSpecial, newSpecialEvaluator returned an error
EvalSpecialFail ==
    /\ pc = "newEval" /\ judgeType = "Special"
    /\ finalStatus' = "UnknownError"
    /\ markAs("UnknownError")
    /\ pc' = "deferFinal"
    /\ UNCHANGED <<envVars, dbSub, subm, loaded, execTime, memoryUsage, point, eval,
                   hasEval, compiled, compileRes, live, created, loopVars, panicking,
                   outVars, histVars>>

\* default without its return: Run goes on to compile
EvalNotImplementedFallsThrough ==
    /\ pc = "newEval" /\ judgeType = "Unimplemented"
    /\ finalStatus' = "UnknownError"
    /\ markAs("UnknownError")
    /\ pc' = "compile"
    /\ UNCHANGED <<envVars, dbSub, subm, loaded, execTime, memoryUsage, point, eval,
                   hasEval, compiled, compileRes, live, created, loopVars, panicking,
                   outVars, histVars>>

\* default: the judge type is not implemented
EvalNotImplemented ==
    /\ pc = "newEval" /\ judgeType = "Unimplemented"
    /\ finalStatus' = "UnknownError"
    /\ markAs("UnknownError")
    /\ pc' = "deferFinal"
    /\ UNCHANGED <<envVars, dbSub, subm, loaded, execTime, memoryUsage, point, eval,
                   hasEval, compiled, compileRes, live, created, loopVars, panicking,
                   outVars, histVars>>

\* a sandbox operation returned an error: remembered for the claims
Fails(kind) ==
    /\ failure' = kind
    /\ UNCHANGED <<parseErrAt, noBlock, naive>>

\* ------------------------------------------------------- Run: compilation
\* compile failed and Run enters the case-set loop all the same
CompileCreateFailContinues ==
    /\ pc = "compile"
    /\ compiled' = FALSE
    /\ finalStatus' = "UnknownError"
    /\ markAs("UnknownError")
    /\ pc' = "loop"
    /\ UNCHANGED <<envVars, dbSub, subm, loaded, execTime, memoryUsage, point, eval,
                   hasEval, compileRes, live, created, loopVars, panicking, outVars>>
    /\ Fails("compile")

\* compile: NewTimeoutWorker failed; Run marks everything UnknownError
CompileCreateFail ==
    /\ pc = "compile"
    /\ compiled' = FALSE
    /\ finalStatus' = "UnknownError"
    /\ markAs("UnknownError")
    /\ pc' = "evaluate"
    /\ UNCHANGED <<envVars, dbSub, subm, loaded, execTime, memoryUsage, point, eval,
                   hasEval, compileRes, live, created, loopVars, panicking, outVars>>
    /\ Fails("compile")

\* compile: the sandbox exists, CopyContentToContainer or Run failed and
\* compile returns nil, nil without removing it
CompileLateFail ==
    /\ pc = "compile"
    /\ live' = live \cup {CompileBox}
    /\ created' = created \cup {CompileBox}
    /\ compiled' = FALSE
    /\ finalStatus' = "UnknownError"
    /\ markAs("UnknownError")
    /\ pc' = "evaluate"
    /\ UNCHANGED <<envVars, dbSub, subm, loaded, execTime, memoryUsage, point, eval,
                   hasEval, compileRes, loopVars, panicking, outVars>>
    /\ Fails("compile")

\* compile returned the sandbox and the compiler's result
CompileDone ==
    /\ pc = "compile"
    /\ \E res \in CompileResults :
        /\ compileRes' = [present |-> TRUE, status |-> res.status, exitCode |-> res.exitCode]
        /\ IF res.status # "Finished"
           THEN /\ finalStatus' = "CompileError"
                /\ markAs("CompileError")
                /\ pc' = "evaluate"
           ELSE /\ UNCHANGED <<finalStatus, dbSet, dbCase>>
                /\ pc' = "loop"
    /\ live' = live \cup {CompileBox}
    /\ created' = created \cup {CompileBox}
    /\ compiled' = TRUE
    /\ UNCHANGED <<envVars, dbSub, subm, loaded, execTime, memoryUsage, point, eval,
                   hasEval, loopVars, panicking, outVars, histVars>>

\* ------------------------------------------------- Run: the case-set loop
\* CaseSet.Point as eval.next(&r.CaseSet, nil) reads it, before FetchCaseSet
inMemorySetPoint(s) == IF preloaded THEN SetPoint(s) ELSE 0

\* the head of one iteration: r is a copy of the k-th JudgeSetResult and
\* eval.next folds the previous set evaluator in and makes the next one
BeginSet ==
    /\ pc = "loop" /\ k <= NumSets
    /\ r' = loaded[k]
    /\ eval' = evalNext(eval, inMemorySetPoint(k))

\* the error branch of the loop: log and break
BreakLoop ==
    /\ pc' = "evaluate"
    /\ UNCHANGED <<k, i, order>>

\* the range over JudgeSetResults is exhausted
LoopEnd ==
    /\ pc = "loop" /\ k > NumSets
    /\ pc' = "evaluate"
    /\ UNCHANGED <<envVars, dbVars, subm, loaded, accVars, eval, hasEval, compiled,
                   compileRes, live, created, loopVars, panicking, outVars, histVars>>

\* createJudgementWorker: NewJudgementWorker failed, w.Remove() on what it
\* returned had no effect
ExecCreateFail ==
    /\ BeginSet
    /\ BreakLoop
    /\ UNCHANGED <<envVars, dbVars, subm, loaded, accVars, hasEval, compiled,
                   compileRes, live, created, panicking, outVars>>
    /\ Fails("exec")

\* createJudgementWorker: NewJudgementWorker failed and returned no worker,
\* w.Remove() dereferences nil
ExecCreateFailPanic ==
    /\ BeginSet
    /\ panicking' = TRUE
    /\ pc' = "deferRemove"
    /\ UNCHANGED <<envVars, dbVars, subm, loaded, accVars, hasEval, compiled,
                   compileRes, live, created, k, i, order, outVars>>
    /\ Fails("exec")

\* createJudgementWorker: the sandbox was created, then the script, an
\* input or the executable could not be put in; w.Remove() and the error
ExecSetupFail ==
    /\ BeginSet
    /\ created' = created \cup {ExecBox(k)}
    /\ live' = live \ {ExecBox(k)}
    /\ BreakLoop
    /\ UNCHANGED <<envVars, dbVars, subm, loaded, accVars, hasEval, compiled,
                   compileRes, panicking, outVars>>
    /\ Fails("exec")

\* executeCaseSet: the sandbox is ready, w.Run failed; the error is returned
\* and the worker is dropped
ExecRunFail ==
    /\ BeginSet
    /\ created' = created \cup {ExecBox(k)}
    /\ live' = live \cup {ExecBox(k)}
    /\ BreakLoop
    /\ UNCHANGED <<envVars, dbVars, subm, loaded, accVars, hasEval, compiled,
                   compileRes, panicking, outVars>>
    /\ Fails("exec")

\* executeCaseSet returned the worker: the results were shuffled into some
\* order, the inputs injected in that order and the batch was run
ExecOk ==
    /\ BeginSet
    /\ created' = created \cup {ExecBox(k)}
    /\ live' = live \cup {ExecBox(k)}
    /\ \E seeded \in BOOLEAN, js \in Draws :
        order' = shuffleJudgeResults(IdentityOrder, seeded, js)
    /\ i' = 1
    /\ pc' = "judge"
    /\ UNCHANGED <<envVars, dbVars, subm, loaded, accVars, hasEval, compiled,
                   compileRes, k, panicking, outVars, histVars>>

\* ---------------------------------------------------------- judgeCaseSet
\* createJudgementWorker: the test case whose input goes to /tmp/input/<n>
inputAt(n) == order[n]

\* the same list read back without the shuffle (fetched anew)
resultsAtRefetched(n) == IdentityOrder[n]

\* judgeCaseSet: the JudgeResult at position n of setResult.JudgeResults,
\* the list createJudgementWorker shuffled in place
resultsAt(n) == order[n]

\* the status the set evaluator gives the result, classified against the
\* test case of JudgeResult c
classify(res, c, checkerExit) ==
    IF judgeType = "Special" THEN specialClassify(res, checkerExit)
    ELSE simpleClassify(res, ExpectedOutput(c))

\* Run after judgeCaseSet returned (its error is not looked at): the
\* accumulators take r's figures and the loop goes to the next set
AfterJudge(rr) ==
    /\ execTime' = MaxDuration(execTime, rr.execTime)
    /\ memoryUsage' = MaxLong(memoryUsage, rr.memoryUsage)
    /\ k' = k + 1
    /\ i' = 1
    /\ order' = IdentityOrder
    /\ pc' = "loop"

\* judgeCaseSet returns an error: its deferred w.Remove() runs, nothing
\* more is classified or persisted for the set
AbandonSet ==
    /\ live' = live \ {ExecBox(k)}
    /\ parseErrAt' = parseErrAt \cup {k}
    /\ AfterJudge(r)
    /\ UNCHANGED <<envVars, dbVars, subm, loaded, point, finalStatus, eval, hasEval,
                   compiled, compileRes, created, r, panicking, outVars, naive, failure>>

\* p.Next() returned an error (a malformed block), at any position
JudgeParseError ==
    /\ pc = "judge" /\ i <= NumCases
    /\ AbandonSet
    /\ UNCHANGED noBlock

\* p.Next() presented no block before the last position: ErrParseOutput
JudgeMissingBlock ==
    /\ pc = "judge" /\ i < NumCases
    /\ AbandonSet
    /\ noBlock' = noBlock \cup {<<k, i>>}

\* p.Next() presented no block at the last position (has = false with an
\* absent ExecResult): evaluator.next(nil, ..) counts an UnknownError, then
\* res.ExecTime dereferences nil
JudgeMissingLast ==
    /\ pc = "judge" /\ i = NumCases
    /\ eval' = [eval EXCEPT !.lastSet.statuses =
                    Incr(@, classify(NilResult, resultsAt(i), 0))]
    /\ noBlock' = noBlock \cup {<<k, i>>}
    /\ live' = live \ {ExecBox(k)}
    /\ panicking' = TRUE
    /\ pc' = "deferRemove"
    /\ UNCHANGED <<envVars, dbVars, subm, loaded, accVars, hasEval, compiled,
                   compileRes, created, loopVars, outVars, parseErrAt, naive, failure>>

\* the JudgeResult row written for a classified result
caseRow(st, res) ==
    [status |-> st, execTime |-> res.execTime, memoryUsage |-> res.memoryUsage \div 1024]

\* one iteration of the loop in judgeCaseSet with a block present
JudgeCase ==
    /\ pc = "judge" /\ i <= NumCases
    /\ \E res \in ExecResults, checkerExit \in {0, 1} :
        /\ judgeType # "Special" => checkerExit = 0
        /\ LET st == classify(Present(res), resultsAt(i), checkerExit)
           IN  /\ eval' = [eval EXCEPT !.lastSet.statuses = Incr(@, st)]
               /\ dbCase' = [dbCase EXCEPT ![k][resultsAt(i)] = caseRow(st, Present(res))]
        /\ naive' = [naive EXCEPT ![k][inputAt(i)] =
                        classify(Present(res), inputAt(i), checkerExit)]
    /\ i' = i + 1
    /\ UNCHANGED <<pc, envVars, dbSub, dbSet, subm, loaded, accVars, hasEval, compiled,
                   compileRes, live, created, k, order, r, panicking, outVars,
                   parseErrAt, noBlock, failure>>

\* the JudgeSetResult row judgeCaseSet writes from the set verdict
setRow(v) ==
    [status |-> v[1], point |-> v[2], execTime |-> maxExecTime,
     memoryUsage |-> maxMemoryUsage]

\* the loop of judgeCaseSet is over: the set verdict is evaluated and
\* persisted, w.Remove() runs, Run updates its accumulators
JudgeSetDone ==
    /\ pc = "judge" /\ i > NumCases
    /\ LET row == setRow(caseSetEvaluate(eval.lastSet))
       IN  /\ dbSet' = [dbSet EXCEPT ![k] = row]
           /\ r' = row
           /\ AfterJudge(row)
    /\ live' = live \ {ExecBox(k)}
    /\ UNCHANGED <<envVars, dbSub, dbCase, subm, loaded, point, finalStatus, eval,
                   hasEval, compiled, compileRes, created, panicking, outVars,
                   histVars>>

\* ------------------------------------------------------ Run: the verdict
\* what the contest part of Run does: no contest, IsWriter failed, the
\* score hook is called, or the contest is closed / the user a writer
ContestOutcomes == {"none", "writerError", "score", "skip"}

\* the rest of Run after the loop
Evaluate ==
    /\ pc = "evaluate"
    /\ LET v == IF finalStatus # "CompileError"
                THEN evalEvaluate(eval)
                ELSE <<finalStatus, point>>
       IN  /\ finalStatus' = v[1]
           /\ point' = v[2]
           /\ subm' = [status |-> v[1], point |-> v[2], execTime |-> execTime,
                       memoryUsage |-> memoryUsage]
    /\ \E contest \in ContestOutcomes :
        hookCalls' = IF contest = "score" THEN hookCalls + 1 ELSE hookCalls
    /\ pc' = "deferRemove"
    /\ UNCHANGED <<envVars, dbVars, loaded, execTime, memoryUsage, eval, hasEval,
                   compiled, compileRes, live, created, loopVars, panicking,
                   finalWrites, notified, histVars>>

\* --------------------------------------------------- the deferred calls
\* defer eval.remove(): the special evaluator gives up its checker sandbox
DeferEvalRemove ==
    /\ pc = "deferRemove"
    /\ live' = live \ {CheckerBox}
    /\ pc' = "deferFinal"
    /\ UNCHANGED <<envVars, dbVars, subm, loaded, accVars, eval, hasEval, compiled,
                   compileRes, created, loopVars, panicking, outVars, histVars>>

\* the deferred closure saving j.submission instead of the accumulators
DeferFinaliseStale ==
    /\ pc = "deferFinal"
    /\ dbSub' = subm
    /\ finalWrites' = finalWrites + 1
    /\ notified' = Append(notified, subm)
    /\ pc' = "close"
    /\ UNCHANGED <<envVars, dbSet, dbCase, subm, loaded, accVars, eval, hasEval,
                   compiled, compileRes, live, created, loopVars, panicking, hookCalls,
                   histVars>>

\* the deferred closure: the accumulators are written to the Submission row
\* and onUpdateJudgementStatuses gets *j.submission
DeferFinalise ==
    /\ pc = "deferFinal"
    /\ dbSub' = [status |-> finalStatus, point |-> point, execTime |-> execTime,
                 memoryUsage |-> memoryUsage]
    /\ finalWrites' = finalWrites + 1
    /\ notified' = Append(notified, subm)
    /\ pc' = "close"
    /\ UNCHANGED <<envVars, dbSet, dbCase, subm, loaded, accVars, eval, hasEval,
                   compiled, compileRes, live, created, loopVars, panicking, hookCalls,
                   histVars>>

\* defer j.Close()
Close ==
    /\ pc = "close"
    /\ live' = IF compiled THEN live \ {CompileBox} ELSE live
    /\ pc' = "done"
    /\ UNCHANGED <<envVars, dbVars, subm, loaded, accVars, eval, hasEval, compiled,
                   compileRes, created, loopVars, panicking, outVars, histVars>>

Next ==
    \/ RunAbsent
    \/ RunPrepare
    \/ EvalNormal
    \/ EvalSpecialOk
    \/ EvalSpecialFail
    \/ EvalNotImplemented
    \/ CompileCreateFail
    \/ CompileLateFail
    \/ CompileDone
    \/ LoopEnd
    \/ ExecCreateFail
    \/ ExecCreateFailPanic
    \/ ExecSetupFail
    \/ ExecRunFail
    \/ ExecOk
    \/ JudgeParseError
    \/ JudgeMissingBlock
    \/ JudgeMissingLast
    \/ JudgeCase
    \/ JudgeSetDone
    \/ Evaluate
    \/ DeferEvalRemove
    \/ DeferFinalise
    \/ Close

Spec == Init /\ [][Next]_vars

TypeOK ==
    /\ pc \in {"start", "newEval", "compile", "loop", "judge", "evaluate",
               "deferRemove", "deferFinal", "close", "done"}
    /\ dbSub.status \in JudgementStatuses
    /\ \A s \in Sets : dbSet[s].status \in TerminalStatuses
    /\ k \in 1..(NumSets + 1)
    /\ i \in 1..(NumCases + 1)

\* ============================================ the simple evaluator, alone
jobVars ==
    <<pc, exists, judgeType, preloaded, dbVars, subm, loaded, accVars, eval,
      hasEval, compiled, compileRes, live, created, loopVars, panicking,
      outVars, histVars>>

Chars == {"3", "4", "\n"}
Strings == UNION {[1..n -> Chars] : n \in 0..MaxStrLen}

\* the results next may be handed: nil, or any status with any stdout
NextResults ==
    {NilResult} \cup
    {[present |-> TRUE, status |-> ws, stdout |-> out, execTime |-> 0,
      memoryUsage |-> 0] : ws \in WorkerStatuses, out \in Strings}

InitClassify ==
    /\ JobIdle
    /\ SessionStart
    /\ cIn \in [res : NextResults, expected : Strings]
    /\ cOut = NoOutput

CallNext ==
    /\ cOut = NoOutput
    /\ cOut' = simpleNext(cIn.res, cIn.expected)
    /\ UNCHANGED <<jobVars, cIn, sessionVars>>

NextClassify == CallNext

SpecClassify == InitClassify /\ [][NextClassify]_vars

\* ======================================================== user sessions
lifetimeTicks == 24

\* the clock moves in steps of a little more than half the lifetime
ClockStep == lifetimeTicks \div 2 + 1

Tokens == 1..MaxTokens

\* bcrypt.GenerateFromPassword and bcrypt.CompareHashAndPassword
Digest(token) == <<"bcrypt", token>>
Matches(digest, token) == digest = Digest(token)

SessionsOf(u) == {row \in sessions : row.userID = u}

\* getSession: the row the query's First yields, ID 0 when there is none
NoSession == [id |-> 0, userID |-> 0, tokenDigest |-> <<>>, createdAt |-> 0]
getSession(u) ==
    IF SessionsOf(u) = {} THEN NoSession
    ELSE CHOOSE row \in SessionsOf(u) :
            \A other \in SessionsOf(u) : row.id <= other.id

InitSession ==
    /\ JobIdle
    /\ ClassifyIdle
    /\ SessionStart

\* NewSession: unknown email or wrong password
NewSessionRejected(p) ==
    /\ call[p].pc = "idle"
    /\ UNCHANGED vars

\* NewSession: the user is found and a token generated
NewSessionBegin(p, u) ==
    /\ call[p].pc = "idle"
    /\ nextToken <= MaxTokens
    /\ call' = [call EXCEPT ![p] =
                    [pc |-> "read", user |-> u, token |-> nextToken, old |-> 0]]
    /\ nextToken' = nextToken + 1
    /\ UNCHANGED <<jobVars, classifyVars, sessions, nextId, now, lastCheck, latest>>

\* NewSession: oldSession := getSession(user.ID)
NewSessionRead(p) ==
    /\ call[p].pc = "read"
    /\ call' = [call EXCEPT ![p].pc = "delete",
                            ![p].old = getSession(call[p].user).id]
    /\ UNCHANGED <<jobVars, classifyVars, sessions, nextId, nextToken, now,
                   lastCheck, latest>>

\* NewSession: db.Delete(oldSession) when there was one
NewSessionDelete(p) ==
    /\ call[p].pc = "delete"
    /\ sessions' = IF call[p].old # 0
                   THEN {row \in sessions : row.id # call[p].old}
                   ELSE sessions
    /\ call' = [call EXCEPT ![p].pc = "create"]
    /\ UNCHANGED <<jobVars, classifyVars, nextId, nextToken, now, lastCheck, latest>>

\* NewSession: db.Create(session) and the return of the token
NewSessionCreate(p) ==
    /\ call[p].pc = "create"
    /\ sessions' = sessions \cup
            {[id |-> nextId, userID |-> call[p].user,
              tokenDigest |-> Digest(call[p].token), createdAt |-> now]}
    /\ nextId' = nextId + 1
    /\ latest' = [latest EXCEPT ![call[p].user] = call[p].token]
    /\ call' = [call EXCEPT ![p] = NoCall]
    /\ UNCHANGED <<jobVars, classifyVars, nextToken, now, lastCheck>>

\* CheckLogin's answer: is a session returned
CheckLoginAccepts(u, token) ==
    LET session == getSession(u)
        duration == session.createdAt - now
    IN  /\ session.id # 0
        /\ ~(lifetimeTicks < duration)
        /\ Matches(session.tokenDigest, token)

CheckLogin(u, token) ==
    /\ lastCheck' = [ok |-> CheckLoginAccepts(u, token), user |-> u,
                     token |-> token,
                     age |-> IF getSession(u).id = 0 THEN 0
                             ELSE now - getSession(u).createdAt,
                     latest |-> latest[u]]
    /\ UNCHANGED <<jobVars, classifyVars, sessions, nextId, nextToken, call,
                   now, latest>>

\* time passes
Tick ==
    /\ now + ClockStep <= MaxNow
    /\ now' = now + ClockStep
    /\ UNCHANGED <<jobVars, classifyVars, sessions, nextId, nextToken, call,
                   lastCheck, latest>>

NextSession ==
    \/ \E p \in Requests : NewSessionRejected(p)
    \/ \E p \in Requests, u \in Users : NewSessionBegin(p, u)
    \/ \E p \in Requests : NewSessionRead(p)
    \/ \E p \in Requests : NewSessionDelete(p)
    \/ \E p \in Requests : NewSessionCreate(p)
    \/ \E u \in Users, token \in Tokens : CheckLogin(u, token)
    \/ Tick

SpecSession == InitSession /\ [][NextSession]_vars

\* ===================================================== claims C1 .. C10
Returned == pc = "done"

RECURSIVE SumPoints(_)
SumPoints(n) == IF n = 0 THEN 0 ELSE dbSet[n].point + SumPoints(n - 1)

MaxOf(nums) == IF nums = {} THEN 0 ELSE CHOOSE m \in nums : \A n \in nums : n <= m

CaseTimes(s) == {dbCase[s][c].execTime : c \in Cases}
CaseMemories(s) == {dbCase[s][c].memoryUsage : c \in Cases}
CaseStatuses(s) == {dbCase[s][c].status : c \in Cases}

\* the case sets whose judgeCaseSet ran to its end
Judged == {s \in Sets : s < k /\ s \notin parseErrAt}

\* C1: when Run has returned, a compile sandbox that compile() created no
\* longer exists, whichever way Run ended.
C1_CompileSandboxDestroyed == Returned => CompileBox \notin live

\* C2: the exec sandbox of a case set exists only while that set is being
\* judged: it is gone before the loop moves on, breaks or Run returns.
C2_ExecSandboxScoped ==
    \A s \in Sets : ExecBox(s) \in live => (pc = "judge" /\ k = s)

\* C3: when Run has returned for a submission that exists, exactly one
\* finalisation write was made, it wrote a terminal status and the row
\* holds the last values of point, finalStatus, execTime and memoryUsage.
C3_FinalisedOnce ==
    /\ finalWrites <= 1
    /\ (Returned /\ exists) =>
          /\ finalWrites = 1
          /\ dbSub.status \in TerminalStatuses
          /\ dbSub = [status |-> finalStatus, point |-> point,
                      execTime |-> execTime, memoryUsage |-> memoryUsage]

C3_Witness ==
    /\ Returned /\ exists /\ panicking
    /\ finalWrites = 1
    /\ \E s \in Sets : dbSet[s].status = "Accepted"

C5_StatusIsFold ==
    (Returned /\ exists /\ dbSub.status # "CompileError") =>
        /\ dbSub.status = FoldSet({dbSet[s].status : s \in Sets})
        /\ \A s \in Sets : dbSet[s].status = FoldSet(CaseStatuses(s))

\* C6: execTime and memoryUsage of a finished submission are the maxima
\* over its JudgeResult rows, and those of every JudgeSetResult the maxima
\* over the rows of its set.
C6_TimesAreMaxima ==
    (Returned /\ exists) =>
        /\ dbSub.execTime = MaxOf(UNION {CaseTimes(s) : s \in Sets})
        /\ dbSub.memoryUsage = MaxOf(UNION {CaseMemories(s) : s \in Sets})
        /\ \A s \in Sets :
            /\ dbSet[s].execTime = MaxOf(CaseTimes(s))
            /\ dbSet[s].memoryUsage = MaxOf(CaseMemories(s))

\* C7: a submission persisted as CompileError has every JudgeSetResult and
\* JudgeResult row CompileError, point 0, execTime 0 and memoryUsage 0.
C7_CompileErrorEverywhere ==
    dbSub.status = "CompileError" =>
        /\ \A s \in Sets : dbSet[s].status = "CompileError"
        /\ \A s \in Sets : \A c \in Cases : dbCase[s][c].status = "CompileError"
        /\ dbSub.point = 0 /\ dbSub.execTime = 0 /\ dbSub.memoryUsage = 0

C7_Witness ==
    /\ Returned
    /\ dbSub.status = "CompileError"
    /\ compileRes.present /\ compileRes.status # "Finished"

\* C8: a compiler run that ended with a nonzero exit code or a status
\* other than Finished leaves no exec sandbox created and, once Run has
\* returned, the submission and all its rows CompileError.
C8_CompileFailureStops ==
    (compileRes.present /\ (compileRes.status # "Finished" \/ compileRes.exitCode # 0)) =>
        /\ \A s \in Sets : ExecBox(s) \notin created
        /\ Returned =>
            /\ dbSub.status = "CompileError"
            /\ \A s \in Sets : dbSet[s].status = "CompileError"

\* C9: with the Simple evaluator a judged set is persisted Accepted exactly
\* when all its JudgeResult rows are Accepted, with the case set's stored
\* point when Accepted and 0 otherwise.
C9_SimpleSetVerdict ==
    judgeType = "Normal" =>
        \A s \in Judged :
            /\ dbSet[s].status = "Accepted" <=> CaseStatuses(s) = {"Accepted"}
            /\ dbSet[s].point = IF dbSet[s].status = "Accepted" THEN SetPoint(s) ELSE 0

\* C10: after a parse error in a case set no later set is executed: no
\* exec sandbox is created for it and its status stays UnknownError.
C10_ParseErrorAborts ==
    \A s \in parseErrAt : \A t \in Sets :
        t > s => (ExecBox(t) \notin created /\ dbSet[t].status = "UnknownError")

\* ==================================================== claims C11 .. C18
\* C11: a block missing before the last position fails the set and leaves
\* its verdict unpersisted; a block missing at the last position only is
\* tolerated: no fault, and the set is judged to its end.
C11_MissingBlockHandling ==
    \A e \in noBlock :
        IF e[2] < NumCases
        THEN e[1] \in parseErrAt /\ dbSet[e[1]] = BlankRow
        ELSE ~panicking /\ (Returned => e[1] \in Judged)

\* C12: the list left by the shuffle is a permutation, the results judged
\* so far were persisted on exactly the test cases whose inputs were run,
\* and each such case has the verdict of its own input's run against its
\* own expected output.
C12_ShuffleKeepsPairing ==
    /\ order \in Permutations
    /\ pc = "judge" =>
          {c \in Cases : naive[k][c] # "none"} = {order[n] : n \in 1..(i - 1)}
    /\ \A s \in Sets : \A c \in Cases :
          IF naive[s][c] = "none"
          THEN (compileRes.present /\ compileRes.status = "Finished")
                    => dbCase[s][c] = BlankCase
          ELSE dbCase[s][c].status = naive[s][c]

C12_Witness ==
    /\ pc = "judge" /\ i > NumCases
    /\ judgeType = "Normal"
    /\ order # IdentityOrder
    /\ dbCase[k][order[1]].status = "Accepted"
    /\ \E c \in Cases : dbCase[k][c].status = "WrongAnswer"


\* C14: when the submission is absent, Run creates no sandbox, writes no
\* row, sends no notification and calls no score hook.
C14_AbsentIsNoOp ==
    ~exists =>
        /\ created = {} /\ live = {}
        /\ dbSub = [status |-> "WaitingJudge", point |-> 0, execTime |-> 0,
                    memoryUsage |-> 0]
        /\ dbSet = [s \in Sets |-> BlankRow]
        /\ dbCase = [s \in Sets |-> [c \in Cases |-> BlankCase]]
        /\ finalWrites = 0
        /\ notified = <<>>
        /\ hookCalls = 0

C14_Witness == ~exists /\ Returned

\* the cases of set s that judgeCaseSet has classified
Classified(s) == {c \in Cases : naive[s][c] # "none"}

\* an exec sandbox exists only after a finished compile run, and only when
\* every earlier set was judged to its end or abandoned
OrderedSets ==
    \A s \in Sets :
        /\ ExecBox(s) \in created =>
              /\ compiled /\ compileRes.present /\ CompileBox \in created
              /\ s <= k
              /\ \A t \in 1..(s - 1) : ExecBox(t) \in created
        /\ s < k => (s \in parseErrAt \/ Classified(s) = Cases)
        /\ s > k => Classified(s) = {}

\* C15: compile precedes every exec sandbox, the case sets are executed in
\* declaration order, and no row is written after the finalisation write.
C15_EventOrder ==
    /\ []OrderedSets
    /\ [][finalWrites >= 1 => UNCHANGED dbVars]_vars

C15_Witness ==
    /\ Returned /\ finalWrites = 1
    /\ Judged = Sets
    /\ \A s \in Sets : ExecBox(s) \in created

\* Run left through a return of the evaluator switch
NoEvaluator == exists /\ ~hasEval /\ pc \in {"deferFinal", "close", "done"}

\* C16: when no evaluator could be constructed, every set and case row is
\* UnknownError, neither the compile sandbox nor an exec sandbox is created,
\* and the submission is finalised as UnknownError with point 0.
C16_NoEvaluatorOutcome ==
    NoEvaluator =>
        /\ \A s \in Sets :
              /\ dbSet[s].status = "UnknownError"
              /\ CaseStatuses(s) = {"UnknownError"}
              /\ ExecBox(s) \notin created
        /\ CompileBox \notin created
        /\ pc \in {"close", "done"} =>
              /\ finalWrites = 1
              /\ dbSub.status = "UnknownError"
              /\ dbSub.point = 0

C16_Witness ==
    /\ NoEvaluator /\ Returned
    /\ judgeType = "Special"
    /\ dbSub.status = "UnknownError"

\* C17: after a failure of the compile sandbox or of a set's exec sandbox
\* no later case set is executed, Run does not panic, and the submission's
\* persisted status is UnknownError once Run has returned.
C17_SandboxFailureOutcome ==
    failure # "none" =>
        /\ failure = "compile" => \A s \in Sets : ExecBox(s) \notin created
        /\ failure = "exec" => \A s \in Sets : s > k => ExecBox(s) \notin created
        /\ ~panicking
        /\ Returned => dbSub.status = "UnknownError"

\* C18: the snapshot handed to onUpdateJudgementStatuses equals the
\* Submission row the finalisation write left.
C18_NotifiedSnapshotIsFinal ==
    notified # <<>> => notified[Len(notified)] = dbSub

\* C13: a result whose sandbox status is MemoryLimitExceeded,
\* TimeLimitExceeded, RuntimeError or OutputLimitExceeded gets the judgement
\* status of the same name, whatever its stdout, and the point 0.
C13_DirectMapping ==
    (cOut # NoOutput /\ cIn.res.present
        /\ cIn.res.status \in {"MemoryLimitExceeded", "TimeLimitExceeded",
                               "RuntimeError", "OutputLimitExceeded"})
    => /\ cOut.status = cIn.res.status
       /\ cOut.point = 0
       /\ \A out \in Strings :
             simpleNext([cIn.res EXCEPT !.stdout = out], cIn.expected) = cOut

\* C19: a user never has two UserSession rows, and a token CheckLogin
\* accepts is the one the user's last finished NewSession returned.
C19_SingleSession ==
    /\ \A u \in Users : Cardinality(SessionsOf(u)) <= 1
    /\ lastCheck.ok => lastCheck.token = lastCheck.latest

\* C20: CheckLogin accepts a session only while its age is at most
\* lifetimeTicks.
C20_ExpiredRejected == lastCheck.ok => lastCheck.age <= lifetimeTicks

====
